---- MODULE Spec2Model ----
(***************************************************************************)
(* Food Factory: the production scheduler (TaskManager), the worker state  *)
(* machine (Worker), the worker pool (WorkerManager), the department       *)
(* resource model (Department, Tile) and the A* pathfinder, driven by the  *)
(* frame loop of Game.run.                                                 *)
(*                                                                         *)
(* Times are integers in tenths of a second.  Python's None is None for    *)
(* integer-valued fields (worker ids, item ids, task ids) and NoStage for  *)
(* string-valued ones.  Tiles are pairs <<col, row>>, zero-based as in the *)
(* source.                                                                 *)
(***************************************************************************)
EXTENDS Integers, Sequences, FiniteSets, Bags, TLC

\* ------------------------------------------------------------------ bounds
NumStages == 3      \* length of the stage pipeline that is laid out
MapRows   == 2      \* rows of the tile grid
MaxItems  == 2      \* items the order manager ever spawns
MaxHires  == 2      \* hire requests that are followed
GridSide  == 3      \* rows and columns of the grids handed to the pathfinder on its own
MaxCalls  == 3      \* calls of find_path that are followed for one grid
ExampleSide == 5    \* rows and columns of the fully walkable example grid
Backlog   == 3      \* items that wait in one buffer for a workstation to come free
MaxQueue  == 3      \* longest pending queue handed to get_task_for_worker on its own
MaxTasks  == 7      \* once this many tasks exist the run is followed no further

\* -------------------------------------------------------- program constants
None == -1
NoStage == "none"
NoTile == <<>>

WORKER_WORK_DURATION == 40
IDLE_RETRY == 5
FAIL_COOLDOWN == 10
DELIVER_TIME == 4
max_workers == 8

AllStages == <<"receiving", "prep", "cooking", "qc", "packaging", "dispatch">>
STAGE_ORDER == SubSeq(AllStages, 1, NumStages)

\* frame times the time source may supply (tenths of a second)
Dts == {IDLE_RETRY, WORKER_WORK_DURATION}

Range(f) == {f[x] : x \in DOMAIN f}
Abs(x) == IF x < 0 THEN 0 - x ELSE x
Reverse(s) == [i \in 1..Len(s) |-> s[Len(s) + 1 - i]]
EmptyFn == [x \in {} |-> x]

\* ================================================================ pathfinder
\* walkable is a function row -> (col -> BOOLEAN), rows and cols from 0.
grid_rows(walkable) == Cardinality(DOMAIN walkable)
grid_cols(walkable) == IF grid_rows(walkable) = 0 THEN 0 ELSE Cardinality(DOMAIN walkable[0])

Dirs == << <<0, -1>>, <<0, 1>>, <<-1, 0>>, <<1, 0>> >>

heuristic(a, b) == Abs(a[1] - b[1]) + Abs(a[2] - b[2])

neighbors(c, r, cols, rows) ==
    LET cand == [i \in 1..4 |-> <<c + Dirs[i][1], r + Dirs[i][2]>>]
    IN  SelectSeq(cand, LAMBDA n : 0 <= n[1] /\ n[1] < cols /\ 0 <= n[2] /\ n[2] < rows)

\* heapq orders the entries (f, (col, row)) as Python orders tuples
HeapLess(a, b) ==
    \/ a[1] < b[1]
    \/ a[1] = b[1] /\ a[2][1] < b[2][1]
    \/ a[1] = b[1] /\ a[2][1] = b[2][1] /\ a[2][2] < b[2][2]

heappop(open) == CHOOSE e \in open : \A o \in open : o = e \/ HeapLess(e, o)

RECURSIVE walk_back(_, _)
walk_back(came_from, current) ==
    IF current \in DOMAIN came_from
    THEN <<current>> \o walk_back(came_from, came_from[current])
    ELSE <<>>

\* a slip in _reconstruct: the path is not reversed
reconstruct_unreversed(came_from, current) == walk_back(came_from, current)

reconstruct(came_from, current) == Reverse(walk_back(came_from, current))

RECURSIVE relax(_, _, _, _, _, _)
relax(walkable, st, current, nbrs, i, goal) ==
    IF i > Len(nbrs) THEN st
    ELSE LET n  == nbrs[i]
             tg == st.g_score[current] + 1
             better == /\ walkable[n[2]][n[1]]
                       /\ (n \notin DOMAIN st.g_score \/ tg < st.g_score[n])
             st2 == IF better
                    THEN [open      |-> st.open \cup {<<tg + heuristic(n, goal), n>>},
                          came_from |-> (n :> current) @@ st.came_from,
                          g_score   |-> (n :> tg) @@ st.g_score]
                    ELSE st
         IN  relax(walkable, st2, current, nbrs, i + 1, goal)

RECURSIVE search(_, _, _)
search(walkable, st, goal) ==
    IF st.open = {} THEN <<>>
    ELSE LET top     == heappop(st.open)
             current == top[2]
             rest    == [st EXCEPT !.open = @ \ {top}]
             nbrs    == neighbors(current[1], current[2],
                                  grid_cols(walkable), grid_rows(walkable))
         IN  IF current = goal
             THEN reconstruct(st.came_from, current)
             ELSE search(walkable, relax(walkable, rest, current, nbrs, 1, goal), goal)

in_grid_walkable(walkable, c, r) ==
    /\ 0 <= r /\ r < grid_rows(walkable)
    /\ 0 <= c /\ c < grid_cols(walkable)
    /\ walkable[r][c]

has_walkable(walkable) ==
    \E r \in DOMAIN walkable : \E c \in DOMAIN walkable[r] : walkable[r][c]

RECURSIVE bfs_expand(_, _, _, _)
bfs_expand(q, visited, cur, i) ==
    IF i > 4 THEN [q |-> q, visited |-> visited]
    ELSE LET n == <<cur[1] + Dirs[i][1], cur[2] + Dirs[i][2]>>
         IN  IF n \notin visited
             THEN bfs_expand(Append(q, n), visited \cup {n}, cur, i + 1)
             ELSE bfs_expand(q, visited, cur, i + 1)

RECURSIVE bfs(_, _, _)
bfs(walkable, q, visited) ==
    IF q = <<>> THEN NoTile
    ELSE LET cur == Head(q)
         IN  IF in_grid_walkable(walkable, cur[1], cur[2]) THEN cur
             ELSE LET e == bfs_expand(Tail(q), visited, cur, 1)
                  IN  bfs(walkable, e.q, e.visited)

\* a slip in _nearest_walkable: the grid is scanned row by row from the top,
\* and the first walkable tile met is taken
nearest_walkable_scanned(walkable, gc, gr) ==
    IF has_walkable(walkable)
    THEN LET ws == {n \in (DOMAIN walkable) \X (DOMAIN walkable) : walkable[n[2]][n[1]]}
         IN  CHOOSE n \in ws : \A m \in ws : n[2] < m[2] \/ (n[2] = m[2] /\ n[1] <= m[1])
    ELSE NoTile

\* The breadth-first expansion runs over the unbounded plane: with no walkable
\* tile in the grid its queue never empties.  nearest_walkable is the value it
\* returns when it returns.
nearest_walkable(walkable, gc, gr) ==
    IF has_walkable(walkable) THEN bfs(walkable, <<<<gc, gr>>>>, {<<gc, gr>>}) ELSE NoTile

\* whether the call returns at all: the one loop without a bound is the one of
\* _nearest_walkable, entered when the goal is not a walkable tile of the grid
find_path_returns(walkable, start, goal) ==
    \/ start = goal
    \/ in_grid_walkable(walkable, goal[1], goal[2])
    \/ has_walkable(walkable)

find_path(walkable, start, goal) ==
    IF start = goal THEN <<>>
    ELSE LET g == IF in_grid_walkable(walkable, goal[1], goal[2]) THEN goal
                  ELSE nearest_walkable(walkable, goal[1], goal[2])
         IN  IF g = NoTile THEN <<>>
             ELSE search(walkable,
                         [open |-> {<<0, start>>}, came_from |-> EmptyFn,
                          g_score |-> (start :> 0)],
                         g)

\* ==================================================================== layout
\* A small instance of the tile map.  Row 0 is the floor the drop points lie
\* on; zone k (from 0) takes the columns 2k and 2k+1, with its entry drop point
\* at (2k, 0), its exit drop point at (2k+1, 0) and its one workstation at
\* (2k, 1), off the way between the drop points.  Every tile is walkable.
MapCols == 2 * NumStages
Tiles == {<<c, r>> : c \in 0..(MapCols - 1), r \in 0..(MapRows - 1)}

walkability_grid == [r \in 0..(MapRows - 1) |-> [c \in 0..(MapCols - 1) |-> TRUE]]

\* the keys of TileMap.departments, in insertion order STAGE_ORDER
Departments == Range(STAGE_ORDER)
StageIdx(name) == CHOOSE i \in 1..Len(STAGE_ORDER) : STAGE_ORDER[i] = name

workstation_tiles(d) == << <<2 * (StageIdx(d) - 1), 1>> >>

\* the entry and the exit drop point that the map gives a department
place_drop_points(d) == << <<2 * (StageIdx(d) - 1), 0>>, <<2 * (StageIdx(d) - 1) + 1, 0>> >>

VARIABLE
    drop_points   \* department name -> Department.drop_point_tiles

drop_point_tiles(d) == drop_points[d]

get_tile(col, row) == IF <<col, row>> \in Tiles THEN <<col, row>> ELSE NoTile

\* ====================================================================== item
NewItem == [stage |-> "receiving", carrier_id |-> None,
            being_processed |-> FALSE, processed |-> FALSE, ready_to_carry |-> FALSE]

next_stage(stage) ==
    IF stage = "delivered" THEN NoStage
    ELSE IF stage \in Range(STAGE_ORDER)
         THEN IF StageIdx(stage) + 1 <= Len(STAGE_ORDER)
              THEN STAGE_ORDER[StageIdx(stage) + 1]
              ELSE "delivered"
         ELSE NoStage

\* a slip in advance_stage: the stage after the next one is taken
advance_stage_skip(item) ==
    LET nxt == next_stage(next_stage(item.stage))
    IN  IF nxt # NoStage
        THEN [stage |-> nxt, carrier_id |-> None,
              being_processed |-> FALSE, processed |-> FALSE, ready_to_carry |-> FALSE]
        ELSE item

advance_stage(item) ==
    LET nxt == next_stage(item.stage)
    IN  IF nxt # NoStage
        THEN [stage |-> nxt, carrier_id |-> None,
              being_processed |-> FALSE, processed |-> FALSE, ready_to_carry |-> FALSE]
        ELSE item

\* ================================================================ department
\* The world the scheduler works on is a record s:
\*   items        item id -> Item                 (ids 1..Len, in creation order)
\*   dept         name -> [item_buffer, worker_count, items_processed]
\*   occupied_by  tile -> worker id or None       (Tile.occupied_by)
\*   tasks        task id -> Task                 (TaskManager._tasks, ids 1..Len)
\*   pending      sequence of task ids            (TaskManager._pending)
\*   published    bag of <<signal, id>>           (EventBus.publish calls)
FirstIdx(seq, P(_)) ==
    LET idx == {i \in 1..Len(seq) : P(seq[i])}
    IN  IF idx = {} THEN 0 ELSE CHOOSE i \in idx : \A j \in idx : i <= j

add_item(s, d, iid) ==
    IF iid \in Range(s.dept[d].item_buffer) THEN s
    ELSE [s EXCEPT !.dept[d].item_buffer = Append(@, iid)]

remove_item(s, d, iid) ==
    [s EXCEPT !.dept[d].item_buffer = SelectSeq(@, LAMBDA x : x # iid)]

get_pending_item(s, d) ==
    LET buf == s.dept[d].item_buffer
        k == FirstIdx(buf, LAMBDA i : ~s.items[i].being_processed /\ ~s.items[i].processed)
    IN  IF k = 0 THEN None ELSE buf[k]

get_ready_to_carry_item(s, d) ==
    LET buf == s.dept[d].item_buffer
        k == FirstIdx(buf, LAMBDA i : s.items[i].ready_to_carry /\ s.items[i].carrier_id = None)
    IN  IF k = 0 THEN None ELSE buf[k]

get_free_workstation(s, d) ==
    LET ws == workstation_tiles(d)
        k == FirstIdx(ws, LAMBDA t : s.occupied_by[t] = None)
    IN  IF k = 0 THEN NoTile ELSE ws[k]

get_drop_point(d) ==
    IF Len(drop_point_tiles(d)) > 0 THEN drop_point_tiles(d)[1] ELSE NoTile

\* ====================================================================== task
NewTask(type, iid, d, target, deliver, deliver_dept) ==
    [task_type |-> type, status |-> "QUEUED", item_id |-> iid, dept |-> d,
     target |-> target, deliver |-> deliver, deliver_dept |-> deliver_dept,
     assigned_worker_id |-> None, work_duration |-> WORKER_WORK_DURATION, priority |-> 0]

\* a slip in Task.assign: the task stays QUEUED
assign_stays_queued(task, worker_id) == [task EXCEPT !.assigned_worker_id = worker_id]

assign(task, worker_id) == [task EXCEPT !.assigned_worker_id = worker_id, !.status = "ASSIGNED"]
start(task) == [task EXCEPT !.status = "IN_PROGRESS"]
complete(task) == [task EXCEPT !.status = "COMPLETE"]
fail(task) == [task EXCEPT !.status = "FAILED", !.assigned_worker_id = None]

\* ============================================================== task manager
publish(s, signal, id) == [s EXCEPT !.published = @ (+) SetToBag({<<signal, id>>})]

find_item(s, iid) ==
    IF \E d \in Departments : iid \in Range(s.dept[d].item_buffer) THEN iid ELSE None

enqueue_task(s, task) ==
    LET tid == Len(s.tasks) + 1
    IN  publish([s EXCEPT !.tasks = Append(@, task), !.pending = Append(@, tid)],
                "TASK_CREATED", tid)

\* a slip in _try_create_process_task: the first workstation is taken, free or not
try_create_process_task_any(s, iid, d) ==
    IF s.items[iid].being_processed \/ s.items[iid].processed THEN s
    ELSE LET workstation == workstation_tiles(d)[1]
         IN  IF workstation = NoTile THEN s
             ELSE enqueue_task([s EXCEPT !.items[iid].being_processed = TRUE],
                               NewTask("PROCESS", iid, d, workstation, <<0, 0>>, ""))

try_create_process_task(s, iid, d) ==
    IF s.items[iid].being_processed \/ s.items[iid].processed THEN s
    ELSE LET workstation == get_free_workstation(s, d)
         IN  IF workstation = NoTile THEN s
             ELSE enqueue_task([s EXCEPT !.items[iid].being_processed = TRUE],
                               NewTask("PROCESS", iid, d, workstation, <<0, 0>>, ""))

try_create_carry_task(s, iid) ==
    LET stage == s.items[iid].stage
        nxt   == next_stage(stage)
    IN  IF stage \notin Departments THEN s
        ELSE IF nxt = NoStage THEN s
        ELSE IF nxt \notin Departments THEN s
        ELSE LET dps == drop_point_tiles(stage)
                 pick_up_tile == IF Len(dps) > 1 THEN dps[Len(dps)] ELSE get_drop_point(stage)
                 deliver_tile == IF Len(drop_point_tiles(nxt)) > 0
                                 THEN drop_point_tiles(nxt)[1] ELSE get_drop_point(nxt)
             IN  IF pick_up_tile = NoTile \/ deliver_tile = NoTile THEN s
                 ELSE enqueue_task(
                        [s EXCEPT !.items[iid].ready_to_carry = TRUE,
                                  !.items[iid].carrier_id = None],
                        NewTask("CARRY", iid, stage, pick_up_tile, deliver_tile, nxt))

on_item_arrived(s, iid) ==
    LET d == s.items[iid].stage
    IN  IF d \in Departments
        THEN try_create_process_task(add_item(s, d, iid), iid, d)
        ELSE s

get_task_for_worker(s, home_dept) ==
    LET k == FirstIdx(s.pending, LAMBDA t : s.tasks[t].status = "QUEUED"
                                            /\ s.tasks[t].dept = home_dept)
    IN  IF k = 0 THEN None ELSE s.pending[k]

on_item_picked_up(s, iid, worker_id) ==
    IF find_item(s, iid) # None THEN [s EXCEPT !.items[iid].carrier_id = worker_id] ELSE s

\* a slip in complete_task: the item is taken from the item table, in a
\* buffer or not
complete_task_unsought(s, tid) ==
    IF tid \notin DOMAIN s.tasks THEN s
    ELSE LET task == s.tasks[tid]
             iid  == task.item_id
             s1 == [s EXCEPT !.tasks[tid] = complete(@),
                             !.pending = SelectSeq(@, LAMBDA t : t # tid)]
         IN  IF task.task_type = "PROCESS"
             THEN LET s2 == [s1 EXCEPT !.items[iid].being_processed = FALSE,
                                       !.items[iid].processed = TRUE,
                                       !.items[iid].ready_to_carry = TRUE]
                      d  == s2.items[iid].stage
                      s3 == IF d \in Departments
                            THEN [s2 EXCEPT !.dept[d].items_processed = @ + 1]
                            ELSE s2
                  IN  try_create_carry_task(s3, iid)
             ELSE LET old == s1.items[iid].stage
                      s2 == IF old \in Departments THEN remove_item(s1, old, iid) ELSE s1
                      s3 == [s2 EXCEPT !.items[iid] = advance_stage(@)]
                  IN  IF s3.items[iid].stage \in Departments
                      THEN on_item_arrived(s3, iid)
                      ELSE publish(s3, "ITEM_DELIVERED", iid)

complete_task(s, tid) ==
    IF tid \notin DOMAIN s.tasks THEN s
    ELSE LET task == s.tasks[tid]
             iid  == task.item_id
             s1 == [s EXCEPT !.tasks[tid] = complete(@),
                             !.pending = SelectSeq(@, LAMBDA t : t # tid)]
         IN  IF find_item(s1, iid) = None THEN s1
             ELSE IF task.task_type = "PROCESS"
             THEN LET s2 == [s1 EXCEPT !.items[iid].being_processed = FALSE,
                                       !.items[iid].processed = TRUE,
                                       !.items[iid].ready_to_carry = TRUE]
                      d  == s2.items[iid].stage
                      s3 == IF d \in Departments
                            THEN [s2 EXCEPT !.dept[d].items_processed = @ + 1]
                            ELSE s2
                  IN  try_create_carry_task(s3, iid)
             ELSE LET old == s1.items[iid].stage
                      s2 == IF old \in Departments THEN remove_item(s1, old, iid) ELSE s1
                      s3 == [s2 EXCEPT !.items[iid] = advance_stage(@)]
                  IN  IF s3.items[iid].stage \in Departments
                      THEN on_item_arrived(s3, iid)
                      ELSE publish(s3, "ITEM_DELIVERED", iid)

\* a slip in fail_task: the task is appended to the pending queue unseen
fail_task_appends(s, tid) ==
    IF tid \notin DOMAIN s.tasks THEN s
    ELSE LET task == s.tasks[tid]
             iid  == task.item_id
             s1 == [s EXCEPT !.tasks[tid] = fail(@)]
             s2 == IF find_item(s1, iid) = None THEN s1
                   ELSE IF task.task_type = "PROCESS"
                   THEN [s1 EXCEPT !.items[iid].being_processed = FALSE]
                   ELSE [s1 EXCEPT !.items[iid].ready_to_carry = TRUE,
                                   !.items[iid].carrier_id = None]
             s3 == [s2 EXCEPT !.tasks[tid].status = "QUEUED",
                              !.tasks[tid].assigned_worker_id = None]
         IN  [s3 EXCEPT !.pending = Append(@, tid)]

fail_task(s, tid) ==
    IF tid \notin DOMAIN s.tasks THEN s
    ELSE LET task == s.tasks[tid]
             iid  == task.item_id
             s1 == [s EXCEPT !.tasks[tid] = fail(@)]
             s2 == IF find_item(s1, iid) = None THEN s1
                   ELSE IF task.task_type = "PROCESS"
                   THEN [s1 EXCEPT !.items[iid].being_processed = FALSE]
                   ELSE [s1 EXCEPT !.items[iid].ready_to_carry = TRUE,
                                   !.items[iid].carrier_id = None]
             s3 == [s2 EXCEPT !.tasks[tid].status = "QUEUED",
                              !.tasks[tid].assigned_worker_id = None]
         IN  IF tid \in Range(s3.pending) THEN s3
             ELSE [s3 EXCEPT !.pending = Append(@, tid)]

\* the body of the loop of tick for one department: first the pending item,
\* then, in the world that leaves, the item that is ready to carry
\* a slip in tick: the pending item after the first one is tried as well
tick_process_two(s, d) ==
    LET first == get_pending_item(s, d)
        s1 == IF first # None THEN try_create_process_task(s, first, d) ELSE s
        second == get_pending_item(s1, d)
    IN  IF second # None THEN try_create_process_task(s1, second, d) ELSE s1

tick_process(s, d) ==
    LET pending_item == get_pending_item(s, d)
        queued == \E k \in 1..Len(s.pending) :
                      /\ s.tasks[s.pending[k]].item_id = pending_item
                      /\ s.tasks[s.pending[k]].status = "QUEUED"
    IN  IF pending_item # None /\ ~queued
        THEN try_create_process_task(s, pending_item, d)
        ELSE s

tick_carry(s, d) ==
    LET carry_item == get_ready_to_carry_item(s, d)
        queued == \E k \in 1..Len(s.pending) :
                      /\ s.tasks[s.pending[k]].item_id = carry_item
                      /\ s.tasks[s.pending[k]].task_type = "CARRY"
                      /\ s.tasks[s.pending[k]].status = "QUEUED"
    IN  IF carry_item # None /\ ~queued
        THEN try_create_carry_task(s, carry_item)
        ELSE s

tick_dept(s, d) ==
    CHOOSE r \in {tick_carry(s1, d) : s1 \in {tick_process(s, d)}} : TRUE

\* the loop of tick over the departments, from the k-th on; the world one
\* department leaves is the world the next one starts from
RECURSIVE tick_from(_, _)
tick_from(s, k) ==
    IF k > Len(STAGE_ORDER) THEN s
    ELSE CHOOSE r \in {tick_from(s1, k + 1) : s1 \in {tick_dept(s, STAGE_ORDER[k])}} : TRUE

tick(s) == tick_from(s, 1)

\* ==================================================================== worker
\* A worker is a record [home_dept, tile, path, state, current_task,
\* carried_item_id, work_timer, deliver_timer, idle_timer].  The pixel position
\* is not kept: whether an update reaches the centre of the target tile
\* (dist <= WORKER_SPEED * dt) is the input `reached` of the update.  A timer
\* that has run out is kept at 0: the code only ever tests it against 0 after
\* subtracting a positive dt.
NewWorker(home_dept, spawn) ==
    [home_dept |-> home_dept, tile |-> spawn, path |-> <<>>, state |-> "IDLE",
     current_task |-> None, carried_item_id |-> None,
     work_timer |-> 0, deliver_timer |-> 0, idle_timer |-> 0]

Elapse(timer, dtv) == IF timer - dtv > 0 THEN timer - dtv ELSE 0

\* the operations on a worker return the pair [s |-> world, w |-> worker]
\* Pathfinder.find_path over the grid of the map, which no action changes
paths == [st \in Tiles |-> [g \in Tiles |-> find_path(walkability_grid, st, g)]]

navigate_to(w, target) ==
    LET path == paths[w.tile][target]
    IN  IF path # <<>> \/ target = w.tile
        THEN [ok |-> TRUE, w |-> [w EXCEPT !.path = path]]
        ELSE [ok |-> FALSE, w |-> w]

worker_fail_task(s, w) ==
    [s |-> IF w.current_task # None THEN fail_task(s, w.current_task) ELSE s,
     w |-> [w EXCEPT !.current_task = None, !.carried_item_id = None,
                     !.state = "IDLE", !.idle_timer = FAIL_COOLDOWN]]

assign_task(s, w, wid, tid) ==
    LET w1  == [w EXCEPT !.current_task = tid]
        s1  == [s EXCEPT !.tasks[tid] = assign(@, wid)]
        nav == navigate_to(w1, s1.tasks[tid].target)
    IN  IF nav.ok
        THEN [s |-> s1,
              w |-> [nav.w EXCEPT !.state = IF s1.tasks[tid].task_type = "PROCESS"
                                            THEN "MOVING_TO_TASK" ELSE "MOVING_TO_PICK"]]
        ELSE worker_fail_task(s1, w1)

on_arrived(s, w, wid) ==
    IF w.current_task = None THEN [s |-> s, w |-> [w EXCEPT !.state = "IDLE"]]
    ELSE LET tid == w.current_task IN
         CASE w.state = "MOVING_TO_TASK" ->
                [s |-> [s EXCEPT !.tasks[tid] = start(@)],
                 w |-> [w EXCEPT !.work_timer = WORKER_WORK_DURATION, !.state = "WORKING"]]
           [] w.state = "MOVING_TO_PICK" ->
                LET w1  == [w EXCEPT !.carried_item_id = s.tasks[tid].item_id]
                    s1  == on_item_picked_up(s, s.tasks[tid].item_id, wid)
                    nav == navigate_to(w1, s1.tasks[tid].deliver)
                IN  IF nav.ok
                    THEN [s |-> s1, w |-> [nav.w EXCEPT !.state = "CARRYING"]]
                    ELSE worker_fail_task(s1, w1)
           [] w.state = "CARRYING" ->
                [s |-> s, w |-> [w EXCEPT !.deliver_timer = DELIVER_TIME,
                                          !.state = "DELIVERING"]]
           [] w.state = "RETURNING" ->
                [s |-> s, w |-> [w EXCEPT !.state = "IDLE"]]
           [] OTHER -> [s |-> s, w |-> w]

\* a slip in _finish_work: the worker walks home as after a delivery
finish_work_returning(s, w) ==
    [s |-> IF w.current_task # None THEN complete_task(s, w.current_task) ELSE s,
     w |-> [w EXCEPT !.current_task = None, !.state = "RETURNING"]]

finish_work(s, w) ==
    [s |-> IF w.current_task # None THEN complete_task(s, w.current_task) ELSE s,
     w |-> [w EXCEPT !.current_task = None, !.state = "IDLE"]]

\* a slip in _finish_deliver: the reference to the finished task is kept
finish_deliver_keeps_task(s, w) ==
    LET s1  == IF w.current_task # None THEN complete_task(s, w.current_task) ELSE s
        w1  == [w EXCEPT !.carried_item_id = None]
        nav == navigate_to(w1, drop_point_tiles(w.home_dept)[1])
    IN  IF w.home_dept \in Departments /\ Len(drop_point_tiles(w.home_dept)) > 0 /\ nav.ok
        THEN [s |-> s1, w |-> [nav.w EXCEPT !.state = "RETURNING"]]
        ELSE [s |-> s1, w |-> [w1 EXCEPT !.state = "IDLE"]]

finish_deliver(s, w) ==
    LET s1  == IF w.current_task # None THEN complete_task(s, w.current_task) ELSE s
        w1  == [w EXCEPT !.carried_item_id = None, !.current_task = None]
        nav == navigate_to(w1, drop_point_tiles(w.home_dept)[1])
    IN  IF w.home_dept \in Departments /\ Len(drop_point_tiles(w.home_dept)) > 0 /\ nav.ok
        THEN [s |-> s1, w |-> [nav.w EXCEPT !.state = "RETURNING"]]
        ELSE [s |-> s1, w |-> [w1 EXCEPT !.state = "IDLE"]]

update_idle(s, w, wid, dtv) ==
    LET w1 == [w EXCEPT !.idle_timer = Elapse(@, dtv)]
        tid == get_task_for_worker(s, w.home_dept)
    IN  IF w.idle_timer - dtv > 0 THEN [s |-> s, w |-> w1]
        ELSE IF tid # None THEN assign_task(s, w1, wid, tid)
        ELSE [s |-> s, w |-> [w1 EXCEPT !.idle_timer = IDLE_RETRY]]

update_moving(s, w, wid, reached) ==
    IF w.path = <<>> THEN on_arrived(s, w, wid)
    ELSE IF reached
    THEN LET nxt == Head(w.path)
             occ == [s.occupied_by EXCEPT ![w.tile] = None]
         IN  [s |-> [s EXCEPT !.occupied_by =
                                  IF get_tile(nxt[1], nxt[2]) # NoTile
                                  THEN [occ EXCEPT ![nxt] = wid] ELSE occ],
              w |-> [w EXCEPT !.path = Tail(@), !.tile = nxt]]
    ELSE [s |-> s, w |-> w]

\* a slip in _update_working: the worker takes the follow-on task at once
update_working_takes_next(s, w, dtv) ==
    LET w1 == [w EXCEPT !.work_timer = Elapse(@, dtv)]
        r  == finish_work(s, w1)
        u  == Len(r.s.tasks)
    IN  IF w.work_timer - dtv <= 0
        THEN IF u > Len(s.tasks)
             THEN [s |-> [r.s EXCEPT !.tasks[u] =
                                         assign(@, s.tasks[w.current_task].assigned_worker_id),
                                     !.pending = SelectSeq(@, LAMBDA t : t # u)],
                   w |-> [r.w EXCEPT !.current_task = u]]
             ELSE r
        ELSE [s |-> s, w |-> w1]

update_working(s, w, dtv) ==
    LET w1 == [w EXCEPT !.work_timer = Elapse(@, dtv)]
    IN  IF w.work_timer - dtv <= 0 THEN finish_work(s, w1) ELSE [s |-> s, w |-> w1]

update_delivering(s, w, dtv) ==
    LET w1 == [w EXCEPT !.deliver_timer = Elapse(@, dtv)]
    IN  IF w.deliver_timer - dtv <= 0 THEN finish_deliver(s, w1) ELSE [s |-> s, w |-> w1]

update(s, w, wid, dtv, reached) ==
    CASE w.state = "IDLE"       -> update_idle(s, w, wid, dtv)
      [] w.state = "WORKING"    -> update_working(s, w, dtv)
      [] w.state = "DELIVERING" -> update_delivering(s, w, dtv)
      [] OTHER                  -> update_moving(s, w, wid, reached)

\* ============================================================ worker manager
\* pool is the dict WorkerManager._workers: worker id -> worker, iterated in
\* insertion order, which is the order of the ids.
SortedIds(ids) ==
    LET n == Cardinality(ids)
    IN  [i \in 1..n |-> CHOOSE x \in ids : Cardinality({y \in ids : y < x}) = i - 1]

MaxOf(ids) == CHOOSE x \in ids : \A y \in ids : y <= x

\* a slip in fire_worker: the most recently hired worker goes, idle or not
fire_choice_most_recent(pool, dept_name) ==
    LET mine == {wid \in DOMAIN pool : pool[wid].home_dept = dept_name}
    IN  IF mine # {} THEN MaxOf(mine) ELSE None

\* the worker fire_worker removes, or None
fire_choice(pool, dept_name) ==
    LET mine == {wid \in DOMAIN pool : pool[wid].home_dept = dept_name}
        idle == {wid \in mine : pool[wid].state = "IDLE"}
    IN  IF idle # {} THEN MaxOf(idle)
        ELSE IF mine # {} THEN MaxOf(mine)
        ELSE None

\* ===================================================================== state
NoQuery == <<>>

VARIABLES
    items,        \* the Item objects the order manager has spawned
    dept,         \* Department.item_buffer, worker_count, items_processed
    occupied_by,  \* Tile.occupied_by
    tasks,        \* TaskManager._tasks
    pending,      \* TaskManager._pending
    published,    \* signals the task manager has published on the event bus
    workers,      \* WorkerManager._workers
    next_id,      \* Worker._next_id
    frame,        \* where Game.run is in the current frame
    todo,         \* workers WorkerManager.update has still to update this frame
    dt,           \* the frame's elapsed time
    query         \* a call of AStar.find_path on its own: its arguments and what
                  \* the calls made with them so far have returned

vars == <<items, dept, occupied_by, tasks, pending, published, workers, next_id,
          frame, todo, dt, query, drop_points>>

World == [items |-> items, dept |-> dept, occupied_by |-> occupied_by,
          tasks |-> tasks, pending |-> pending, published |-> published]

Put(s) ==
    /\ items' = s.items
    /\ dept' = s.dept
    /\ occupied_by' = s.occupied_by
    /\ tasks' = s.tasks
    /\ pending' = s.pending
    /\ published' = s.published

Init ==
    /\ items = <<>>
    /\ dept = [d \in Departments |->
                 [item_buffer |-> <<>>, worker_count |-> 0, items_processed |-> 0]]
    /\ occupied_by = [t \in Tiles |-> None]
    /\ tasks = <<>>
    /\ pending = <<>>
    /\ published = EmptyBag
    /\ workers = EmptyFn
    /\ next_id = 0
    /\ frame = "events"
    /\ todo = <<>>
    /\ dt = 0
    /\ query = NoQuery
    /\ drop_points = [d \in Departments |-> place_drop_points(d)]

\* -------------------------------------------------------------------- actions
\* the tiles of the zone of a department, row by row
zone_tiles(d) ==
    [k \in 1..(2 * MapRows) |-> <<2 * (StageIdx(d) - 1) + ((k - 1) % 2), (k - 1) \div 2>>]

\* WorkerManager._find_spawn_tile: the first free tile of the zone
find_spawn_tile(d) ==
    LET k == FirstIdx(zone_tiles(d), LAMBDA tl : occupied_by[tl] = None)
    IN  IF k = 0 THEN NoTile ELSE zone_tiles(d)[k]

\* the tile a new worker of d is put on: the drop point of d or, if d has
\* none, any free tile of its zone
spawn_tile(d) == IF get_drop_point(d) # NoTile THEN get_drop_point(d) ELSE find_spawn_tile(d)

\* a slip in hire_worker: the check against max_workers is missing
hire_worker_uncapped(d) ==
    /\ frame = "events"
    /\ spawn_tile(d) # NoTile
    /\ workers' = (next_id :> NewWorker(d, spawn_tile(d))) @@ workers
    /\ next_id' = next_id + 1
    /\ dept' = [dept EXCEPT ![d].worker_count = @ + 1]
    /\ UNCHANGED <<items, occupied_by, tasks, pending, published, frame, todo, dt, query, drop_points>>

\* WorkerManager.hire_worker, when it creates a worker
hire_worker(d) ==
    /\ frame = "events"
    /\ dept[d].worker_count < max_workers
    /\ spawn_tile(d) # NoTile
    /\ workers' = (next_id :> NewWorker(d, spawn_tile(d))) @@ workers
    /\ next_id' = next_id + 1
    /\ dept' = [dept EXCEPT ![d].worker_count = @ + 1]
    /\ UNCHANGED <<items, occupied_by, tasks, pending, published, frame, todo, dt, query, drop_points>>

\* WorkerManager.hire_worker on REQUEST_HIRE, for the hire requests followed
Hire(d) ==
    /\ next_id < MaxHires
    /\ hire_worker(d)

\* WorkerManager.fire_worker and _remove_worker, on REQUEST_FIRE
Fire(d) ==
    /\ frame = "events"
    /\ dept[d].worker_count # 0
    /\ fire_choice(workers, d) # None
    /\ LET wid == fire_choice(workers, d)
       IN  /\ workers' = [x \in DOMAIN workers \ {wid} |-> workers[x]]
           /\ occupied_by' = IF get_tile(workers[wid].tile[1], workers[wid].tile[2]) # NoTile
                             THEN [occupied_by EXCEPT ![workers[wid].tile] = None]
                             ELSE occupied_by
    /\ dept' = [dept EXCEPT ![d].worker_count = @ - 1]
    /\ UNCHANGED <<items, tasks, pending, published, next_id, frame, todo, dt, query, drop_points>>

\* OrderManager._spawn_items: a new item, handed to TaskManager.on_item_arrived
spawn_items(limit) ==
    /\ frame \in {"events", "spawn"}
    /\ Len(items) < limit
    /\ Len(tasks) < MaxTasks
    /\ \E s \in {on_item_arrived([World EXCEPT !.items = Append(@, NewItem)],
                                  Len(items) + 1)} : Put(s)
    /\ frame' = "spawn"
    /\ UNCHANGED <<workers, next_id, todo, dt, query, drop_points>>

\* the items the order manager spawns in the runs that are followed
ItemArrives == spawn_items(MaxItems)

\* Game._update up to WorkerManager.update: TaskManager.tick, then the list of
\* workers to update is taken
Tick(dtv) ==
    /\ frame \in {"events", "spawn"}
    /\ Len(tasks) < MaxTasks
    /\ \E s \in {tick(World)} : Put(s)
    /\ todo' = SortedIds(DOMAIN workers)
    /\ frame' = IF DOMAIN workers = {} THEN "events" ELSE "workers"
    /\ dt' = IF DOMAIN workers = {} THEN 0 ELSE dtv
    /\ UNCHANGED <<workers, next_id, query, drop_points>>

\* one iteration of WorkerManager.update: Worker.update of the next worker
UpdateWorker(reached) ==
    /\ frame = "workers"
    /\ todo # <<>>
    /\ Len(tasks) < MaxTasks
    /\ \E r \in {update(World, workers[Head(todo)], Head(todo), dt, reached)} :
           /\ Put(r.s)
           /\ workers' = [workers EXCEPT ![Head(todo)] = r.w]
    /\ todo' = Tail(todo)
    /\ frame' = IF Tail(todo) = <<>> THEN "events" ELSE "workers"
    /\ dt' = IF Tail(todo) = <<>> THEN 0 ELSE dt
    /\ UNCHANGED <<next_id, query, drop_points>>

Next ==
    \/ \E d \in Departments : Hire(d)
    \/ \E d \in Departments : Fire(d)
    \/ ItemArrives
    \/ \E dtv \in Dts : Tick(dtv)
    \/ \E reached \in BOOLEAN : UpdateWorker(reached)

Spec == Init /\ [][Next]_vars

\* The staffed run: every department has had one worker hired, in the order
\* of the pipeline, and nobody is hired or fired afterwards.  Game.run repeats
\* the frame for ever, so a frame that can start does start and every worker
\* of the pool is updated in every frame; a worker that is moving reaches the
\* centre of its target tile after finitely many updates, since every update
\* brings it WORKER_SPEED * dt closer.
StaffedInit ==
    /\ drop_points = [d \in Departments |-> place_drop_points(d)]
    /\ items = <<>>
    /\ dept = [d \in Departments |->
                 [item_buffer |-> <<>>, worker_count |-> 1, items_processed |-> 0]]
    /\ occupied_by = [t \in Tiles |-> None]
    /\ tasks = <<>>
    /\ pending = <<>>
    /\ published = EmptyBag
    /\ workers = [w \in 0..(Len(STAGE_ORDER) - 1) |->
                    NewWorker(STAGE_ORDER[w + 1], get_drop_point(STAGE_ORDER[w + 1]))]
    /\ next_id = Len(STAGE_ORDER)
    /\ frame = "events"
    /\ todo = <<>>
    /\ dt = 0
    /\ query = NoQuery

UpdateOf(w, reached) ==
    (IF todo # <<>> THEN Head(todo) = w ELSE FALSE) /\ UpdateWorker(reached)

StaffedNext ==
    \/ ItemArrives
    \/ \E dtv \in Dts : Tick(dtv)
    \/ \E reached \in BOOLEAN : UpdateWorker(reached)

StaffedSpec ==
    /\ StaffedInit
    /\ [][StaffedNext]_vars
    /\ WF_vars(\E dtv \in Dts : Tick(dtv))
    /\ \A w \in 0..(Len(STAGE_ORDER) - 1) : SF_vars(UpdateOf(w, TRUE))

\* -------------------------------------------------- a worker finds no path
\* The map can be edited while the game runs, so that _navigate_to finds no
\* path to a tile other than the one the worker stands on.  The places where
\* Worker.update calls _navigate_to: _assign_task, _on_arrived at the pick-up
\* point, and _finish_deliver for the way home.
claims_task(s, w, dtv) ==
    /\ w.state = "IDLE"
    /\ w.idle_timer - dtv <= 0
    /\ get_task_for_worker(s, w.home_dept) # None
    /\ s.tasks[get_task_for_worker(s, w.home_dept)].target # w.tile

picks_up(s, w) ==
    /\ w.state = "MOVING_TO_PICK"
    /\ w.path = <<>>
    /\ w.current_task # None
    /\ s.tasks[w.current_task].deliver # w.tile

delivers(s, w, dtv) ==
    /\ w.state = "DELIVERING"
    /\ w.deliver_timer - dtv <= 0
    /\ w.home_dept \in Departments
    /\ Len(drop_point_tiles(w.home_dept)) > 0
    /\ drop_point_tiles(w.home_dept)[1] # w.tile

update_no_path(s, w, wid, dtv) ==
    IF w.state = "IDLE"
    THEN LET tid == get_task_for_worker(s, w.home_dept)
         IN  worker_fail_task([s EXCEPT !.tasks[tid] = assign(@, wid)],
                              [w EXCEPT !.idle_timer = Elapse(@, dtv), !.current_task = tid])
    ELSE IF w.state = "DELIVERING"
    THEN [s |-> IF w.current_task # None THEN complete_task(s, w.current_task) ELSE s,
          w |-> [w EXCEPT !.deliver_timer = Elapse(@, dtv), !.carried_item_id = None,
                          !.current_task = None, !.state = "IDLE"]]
    ELSE worker_fail_task(on_item_picked_up(s, s.tasks[w.current_task].item_id, wid),
                          [w EXCEPT !.carried_item_id = s.tasks[w.current_task].item_id])

\* one iteration of WorkerManager.update in which the worker finds no path
UpdateWorkerNoPath ==
    /\ frame = "workers"
    /\ todo # <<>>
    /\ Len(tasks) < MaxTasks
    /\ \/ claims_task(World, workers[Head(todo)], dt)
       \/ picks_up(World, workers[Head(todo)])
       \/ delivers(World, workers[Head(todo)], dt)
    /\ \E r \in {update_no_path(World, workers[Head(todo)], Head(todo), dt)} :
           /\ Put(r.s)
           /\ workers' = [workers EXCEPT ![Head(todo)] = r.w]
    /\ todo' = Tail(todo)
    /\ frame' = IF Tail(todo) = <<>> THEN "events" ELSE "workers"
    /\ dt' = IF Tail(todo) = <<>> THEN 0 ELSE dt
    /\ UNCHANGED <<next_id, query, drop_points>>

BlockedNext == Next \/ UpdateWorkerNoPath

BlockedSpec == Init /\ [][BlockedNext]_vars

\* ------------------------------------------------ a backlog in one buffer
\* Items keep arriving while the first one is worked on: one item more than
\* the backlog is spawned.  Nobody is fired.
BacklogArrives == spawn_items(Backlog + 1)

BacklogNext ==
    \/ \E d \in Departments : Hire(d)
    \/ BacklogArrives
    \/ \E dtv \in Dts : Tick(dtv)
    \/ \E reached \in BOOLEAN : UpdateWorker(reached)

BacklogSpec == Init /\ [][BacklogNext]_vars

\* ------------------------------------------------- departments without drop points
\* A Department is created with an empty list of drop point tiles, which the
\* tile map fills when it places the drop points: the game is followed from
\* the states in which that has been done for some of the departments only,
\* and the layout is fixed while it runs.  Nobody is fired.
GapInit ==
    /\ items = <<>>
    /\ dept = [d \in Departments |->
                 [item_buffer |-> <<>>, worker_count |-> 0, items_processed |-> 0]]
    /\ occupied_by = [t \in Tiles |-> None]
    /\ tasks = <<>>
    /\ pending = <<>>
    /\ published = EmptyBag
    /\ workers = EmptyFn
    /\ next_id = 0
    /\ frame = "events"
    /\ todo = <<>>
    /\ dt = 0
    /\ query = NoQuery
    /\ drop_points \in [Departments -> {<<>>} \cup {place_drop_points(d) : d \in Departments}]
    /\ \A d \in Departments : drop_points[d] \in {<<>>, place_drop_points(d)}

\* the layout of a department is fixed: it gets its two drop points
ConfigureDropPoints(d) ==
    /\ frame = "events"
    /\ drop_points[d] = <<>>
    /\ drop_points' = [drop_points EXCEPT ![d] = place_drop_points(d)]
    /\ UNCHANGED <<items, dept, occupied_by, tasks, pending, published, workers,
                   next_id, frame, todo, dt, query>>

GapNext ==
    \/ \E d \in Departments : Hire(d)
    \/ \E d \in Departments : ConfigureDropPoints(d)
    \/ ItemArrives
    \/ \E dtv \in Dts : Tick(dtv)
    \/ \E reached \in BOOLEAN : UpdateWorker(reached)

GapSpec == GapInit /\ [][GapNext]_vars

\* ------------------------------------------------------ a zone is placed anew
\* In build mode the player drags the zone of a department that exists:
\* TileMap.place_dept_zone puts a new Department under its name, with an
\* empty buffer and counters at zero, and gives it its drop points.  The zone
\* is placed where it was, so that the tiles stay as they are.  Nobody is
\* fired.
place_dept_zone(s, d) ==
    [s EXCEPT !.dept[d] = [item_buffer |-> <<>>, worker_count |-> 0, items_processed |-> 0]]

PlaceDeptZone(d) ==
    /\ frame = "events"
    /\ \E s \in {place_dept_zone(World, d)} : Put(s)
    /\ drop_points' = [drop_points EXCEPT ![d] = place_drop_points(d)]
    /\ UNCHANGED <<workers, next_id, frame, todo, dt, query>>

RezoneNext ==
    \/ \E d \in Departments : Hire(d)
    \/ \E d \in Departments : PlaceDeptZone(d)
    \/ ItemArrives
    \/ \E dtv \in Dts : Tick(dtv)
    \/ \E reached \in BOOLEAN : UpdateWorker(reached)

RezoneSpec == Init /\ [][RezoneNext]_vars

\* --------------------------------------------------- the pathfinder alone
\* Any grid of GridSide rows and columns, any two of its tiles as start and
\* goal; besides, the fully walkable example grid from one corner to the
\* opposite one.  The calls that are followed go from start to goal, with a
\* call from goal to start in between.
GridTiles(side) == {<<c, r>> : c \in 0..(side - 1), r \in 0..(side - 1)}
Grids == [0..(GridSide - 1) -> [0..(GridSide - 1) -> BOOLEAN]]
ExampleGrid == [r \in 0..(ExampleSide - 1) |-> [c \in 0..(ExampleSide - 1) |-> TRUE]]

PathInit ==
    /\ items = <<>>
    /\ dept = [d \in Departments |->
                 [item_buffer |-> <<>>, worker_count |-> 0, items_processed |-> 0]]
    /\ occupied_by = [t \in Tiles |-> None]
    /\ tasks = <<>>
    /\ pending = <<>>
    /\ published = EmptyBag
    /\ workers = EmptyFn
    /\ next_id = 0
    /\ frame = "events"
    /\ todo = <<>>
    /\ dt = 0
    /\ drop_points = [d \in Departments |-> place_drop_points(d)]
    /\ \/ \E w \in Grids : \E st, g \in GridTiles(GridSide) :
              query = [walkable |-> w, start |-> st, goal |-> g, returned |-> <<>>]
       \/ query = [walkable |-> ExampleGrid, start |-> <<0, 0>>,
                   goal |-> <<ExampleSide - 1, ExampleSide - 1>>, returned |-> <<>>]

\* a slip in find_path: ties between routes are broken now by column, now by row
call_find_path_either(st, g) ==
    /\ Len(query.returned) < MaxCalls
    /\ find_path_returns(query.walkable, st, g)
    /\ \E p \in {find_path(query.walkable, st, g),
                  LET mirrored == find_path([r \in DOMAIN query.walkable |->
                                               [c \in DOMAIN query.walkable |->
                                                   query.walkable[c][r]]],
                                            <<st[2], st[1]>>, <<g[2], g[1]>>)
                  IN  [k \in DOMAIN mirrored |-> <<mirrored[k][2], mirrored[k][1]>>]} :
          query' = [query EXCEPT !.returned =
                       Append(@, [start |-> st, goal |-> g, path |-> p])]
    /\ UNCHANGED <<items, dept, occupied_by, tasks, pending, published, workers,
                   next_id, frame, todo, dt, drop_points>>

\* one call of AStar.find_path that returns
call_find_path(st, g) ==
    /\ Len(query.returned) < MaxCalls
    /\ find_path_returns(query.walkable, st, g)
    /\ query' = [query EXCEPT !.returned =
                    Append(@, [start |-> st, goal |-> g,
                               path |-> find_path(query.walkable, st, g)])]
    /\ UNCHANGED <<items, dept, occupied_by, tasks, pending, published, workers,
                   next_id, frame, todo, dt, drop_points>>

FindPath == query # NoQuery /\ call_find_path(query.start, query.goal)
\* a call the other way, between two calls from start to goal
FindPathBack ==
    /\ query # NoQuery
    /\ query.returned # <<>>
    /\ query.returned[Len(query.returned)].start = query.start
    /\ call_find_path(query.goal, query.start)

PathNext == FindPath \/ FindPathBack

PathSpec == PathInit /\ [][PathNext]_vars

\* ------------------------------------ the pathfinder with a goal to replace
\* Any grid of GridSide rows and columns, any of its tiles as start, and as
\* goal a tile of the grid that is not walkable or a tile outside the grid:
\* one beside a corner, one diagonally off the opposite corner.  One call.
OutsideTiles == {<<-1, 0>>, <<GridSide, GridSide>>}

NearestInit ==
    /\ items = <<>>
    /\ dept = [d \in Departments |->
                 [item_buffer |-> <<>>, worker_count |-> 0, items_processed |-> 0]]
    /\ occupied_by = [t \in Tiles |-> None]
    /\ tasks = <<>>
    /\ pending = <<>>
    /\ published = EmptyBag
    /\ workers = EmptyFn
    /\ next_id = 0
    /\ frame = "events"
    /\ todo = <<>>
    /\ dt = 0
    /\ drop_points = [d \in Departments |-> place_drop_points(d)]
    /\ \E w \in Grids : \E st \in GridTiles(GridSide) :
          \E g \in GridTiles(GridSide) \cup OutsideTiles :
              /\ ~in_grid_walkable(w, g[1], g[2])
              /\ query = [walkable |-> w, start |-> st, goal |-> g, returned |-> <<>>]

FindPathOnce == query # NoQuery /\ query.returned = <<>> /\ FindPath

NearestSpec == NearestInit /\ [][FindPathOnce]_vars

\* ------------------------------------------- one worker asking for a task
\* Task.priority is a field of the task that any value can be given to
Priorities == {0, 1}

\* a pending task as TaskManager holds it: still queued, or claimed before
PendingTask(d, p, claimed) ==
    LET task == [NewTask("PROCESS", None, d, workstation_tiles(d)[1], NoTile, NoStage)
                    EXCEPT !.priority = p]
    IN  IF claimed THEN assign(task, 1) ELSE task

PendingTasks == {PendingTask(d, p, c) : d \in Departments, p \in Priorities, c \in BOOLEAN}

\* a pending queue of any tasks, and one idle worker about to be updated
PickInit ==
    /\ drop_points = [d \in Departments |-> place_drop_points(d)]
    /\ items = <<>>
    /\ \E hd \in Departments :
          /\ dept = [d \in Departments |->
                       [item_buffer |-> <<>>, worker_count |-> IF d = hd THEN 1 ELSE 0,
                        items_processed |-> 0]]
          /\ workers = (0 :> NewWorker(hd, get_drop_point(hd)))
    /\ occupied_by = [t \in Tiles |-> None]
    /\ \E n \in 0..MaxQueue :
          /\ tasks \in [1..n -> PendingTasks]
          /\ pending = [k \in 1..n |-> k]
    /\ published = EmptyBag
    /\ next_id = 1
    /\ frame = "workers"
    /\ todo = <<0>>
    /\ dt \in Dts
    /\ query = NoQuery

PickNext == \E reached \in BOOLEAN : UpdateWorker(reached)

PickSpec == PickInit /\ [][PickNext]_vars

\* ------------------------------------------------- hiring and firing only
\* REQUEST_HIRE and REQUEST_FIRE alone, with one hire more than a department
\* has room for
StaffHire(d) ==
    /\ next_id <= max_workers
    /\ hire_worker(d)

PoolNext == \E d \in Departments : StaffHire(d) \/ Fire(d)

PoolSpec == Init /\ [][PoolNext]_vars

\* ==================================================================== claims
TaskIds == DOMAIN tasks
ItemIds == DOMAIN items
FullStages == STAGE_ORDER \o <<"delivered">>
LastStage == STAGE_ORDER[Len(STAGE_ORDER)]
Live(t) == tasks[t].status \in {"ASSIGNED", "IN_PROGRESS"}
TasksOf(type, d) == {t \in TaskIds : tasks[t].task_type = type /\ tasks[t].dept = d}

\* C1: for every department, the number of PROCESS tasks of that department
\* with status IN_PROGRESS is at most the number of its workstation tiles.
C1_InProgressWithinWorkstations ==
    \A d \in Departments :
        Cardinality({t \in TasksOf("PROCESS", d) : tasks[t].status = "IN_PROGRESS"})
            <= Len(workstation_tiles(d))

\* C2: each workstation tile is the target of at most one PROCESS task whose
\* status is ASSIGNED or IN_PROGRESS, and no two workers are WORKING at the
\* same workstation tile.
C2_OneClaimPerWorkstation ==
    \A d \in Departments : \A ws \in Range(workstation_tiles(d)) :
        /\ Cardinality({t \in TasksOf("PROCESS", d) : tasks[t].target = ws /\ Live(t)}) <= 1
        /\ Cardinality({w \in DOMAIN workers :
                            workers[w].state = "WORKING" /\ workers[w].tile = ws}) <= 1

\* C3: a task's assigned_worker_id is non-null if and only if its status is
\* ASSIGNED or IN_PROGRESS.
C3_AssignedIffLive ==
    \A t \in TaskIds : (tasks[t].assigned_worker_id # None) <=> Live(t)

\* C4 (as stated): a worker's current_task is non-null if and only if the
\* worker's state is not IDLE, in all seven states.
C4_TaskIffNotIdle ==
    \A w \in DOMAIN workers : (workers[w].current_task # None) <=> workers[w].state # "IDLE"

\* C4 (amended): a worker's current_task is non-null if and only if the
\* worker's state is neither IDLE nor RETURNING.
C4_TaskIffBusy ==
    \A w \in DOMAIN workers :
        (workers[w].current_task # None) <=> workers[w].state \notin {"IDLE", "RETURNING"}

\* a worker on its way home after a delivery, holding no task
C4_Witness ==
    \E w \in DOMAIN workers : workers[w].state = "RETURNING" /\ workers[w].current_task = None

\* C5: complete_task is idempotent: once complete_task has run for a task (the
\* task is COMPLETE), another call with the same id changes neither the items,
\* the departments, the task table, the pending queue nor the published signals.
C5_CompleteTaskIdempotent ==
    \A t \in TaskIds : tasks[t].status = "COMPLETE" => complete_task(World, t) = World

\* C6: every change of an item's stage moves it to the immediately following
\* entry of the stage sequence; a delivered item's stage never changes.
C6_StageStepsForward ==
    [][\A i \in ItemIds :
          items'[i].stage # items[i].stage =>
              \E k \in 1..(Len(FullStages) - 1) :
                  FullStages[k] = items[i].stage /\ FullStages[k + 1] = items'[i].stage]_vars

\* an item that has gone through every stage
C6_Witness == \E i \in ItemIds : items[i].stage = "delivered"

\* C7: with one worker per stage, a single item and no firing, exactly one
\* PROCESS task and exactly one CARRY task are created for the item at each
\* stage: never more than one of either, and both once the item has been
\* processed there.
StagePos(stage) == CHOOSE k \in 1..Len(FullStages) : FullStages[k] = stage
ProcessedAt(i, d) ==
    \/ StagePos(items[i].stage) > StagePos(d)
    \/ items[i].stage = d /\ items[i].processed
OneItemOneWorkerPerStage ==
    /\ Len(items) = 1
    /\ next_id = Cardinality(DOMAIN workers)
    /\ \A d \in Departments :
          Cardinality({w \in DOMAIN workers : workers[w].home_dept = d}) = 1
C7_OneProcessOneCarryPerStage ==
    OneItemOneWorkerPerStage =>
        \A d \in Departments :
            /\ Cardinality(TasksOf("PROCESS", d)) <= 1
            /\ Cardinality(TasksOf("CARRY", d)) <= 1
            /\ ProcessedAt(1, d) =>
                   Cardinality(TasksOf("PROCESS", d)) = 1 /\ Cardinality(TasksOf("CARRY", d)) = 1

\* C8: for an item whose PROCESS task at the last department has completed a
\* CARRY task out of that department is created, and ITEM_DELIVERED is
\* published exactly once for an item whose stage is delivered.
ProcessedAtLast(i) ==
    /\ items[i].stage = LastStage
    /\ \E t \in TasksOf("PROCESS", LastStage) :
           tasks[t].item_id = i /\ tasks[t].status = "COMPLETE"
C8_LastStageCarriedOut ==
    \A i \in ItemIds :
        /\ ProcessedAtLast(i) =>
               \E t \in TasksOf("CARRY", LastStage) : tasks[t].item_id = i
        /\ items[i].stage = "delivered" => CopiesIn(<<"ITEM_DELIVERED", i>>, published) = 1

\* C10: no task is ASSIGNED or IN_PROGRESS for a worker that is no longer in
\* the pool: fire_worker has failed and re-queued the task of the worker it
\* removed.
C10_NoTaskOfFiredWorker ==
    \A t \in TaskIds : Live(t) => tasks[t].assigned_worker_id \in DOMAIN workers

\* C9: in the staffed run every item in the buffer of a non-final department
\* is eventually processed there and eventually arrives in the next department
\* (or the run reaches the bound on the number of tasks).
WaitsAt(i, k) ==
    IF i \in ItemIds
    THEN items[i].stage = STAGE_ORDER[k] /\ i \in Range(dept[STAGE_ORDER[k]].item_buffer)
    ELSE FALSE
ProcessedThere(i, k) ==
    IF i \in ItemIds
    THEN items[i].stage = STAGE_ORDER[k] /\ items[i].processed
    ELSE FALSE
MovedPast(i, k) ==
    IF i \in ItemIds THEN StagePos(items[i].stage) > k ELSE FALSE
C9_NoItemStalls ==
    \A i \in 1..MaxItems : \A k \in 1..(Len(STAGE_ORDER) - 1) :
        /\ WaitsAt(i, k) ~> (ProcessedThere(i, k) \/ Len(tasks) >= MaxTasks)
        /\ WaitsAt(i, k) ~> (MovedPast(i, k) \/ Len(tasks) >= MaxTasks)

\* C11: a step that removes workers removes exactly one, and leaves the others
\* as they were; the one removed is the most recently hired idle worker of its
\* department if the department has an idle worker, else the most recently
\* hired worker of the department; only that department's worker_count drops;
\* for a department without workers fire_worker finds nobody to remove.
StaffOf(d) == {w \in DOMAIN workers : workers[w].home_dept = d}
IdleOf(d) == {w \in StaffOf(d) : workers[w].state = "IDLE"}
C11_FireRemovesOne ==
    [][/\ \A d \in Departments : StaffOf(d) = {} => fire_choice(workers, d) = None
       /\ DOMAIN workers' # DOMAIN workers /\ next_id' = next_id =>
             \E w \in DOMAIN workers :
                /\ DOMAIN workers' = DOMAIN workers \ {w}
                /\ \A x \in DOMAIN workers' : workers'[x] = workers[x]
                /\ IF IdleOf(workers[w].home_dept) # {}
                   THEN w \in IdleOf(workers[w].home_dept)
                        /\ \A x \in IdleOf(workers[w].home_dept) : x <= w
                   ELSE \A x \in StaffOf(workers[w].home_dept) : x <= w
                /\ \A d \in Departments :
                      dept'[d].worker_count =
                          dept[d].worker_count - (IF d = workers[w].home_dept THEN 1 ELSE 0)
     ]_vars

\* an earlier hired worker is gone while a later hired worker of its
\* department, busy with a task, is still in the pool
C11_Witness ==
    \E w \in DOMAIN workers :
        /\ workers[w].state # "IDLE"
        /\ \E x \in 0..(w - 1) : x \notin DOMAIN workers
        /\ dept[workers[w].home_dept].worker_count = 1
        /\ \A d \in Departments \ {workers[w].home_dept} : dept[d].worker_count = 0

\* C12: whatever was hired and fired, each department's worker_count is the
\* number of workers in the pool whose home is that department, and it is at
\* most max_workers: a hire for a full department creates no worker.
C12_WorkerCountIsPoolCount ==
    \A d \in Departments :
        /\ dept[d].worker_count = Cardinality(StaffOf(d))
        /\ dept[d].worker_count <= max_workers

\* a department is full while a further hire request is still followed
C12_Witness ==
    /\ next_id <= max_workers
    /\ \E d \in Departments : dept[d].worker_count = max_workers

\* C13: what get_task_for_worker returns for a department is, among the pending
\* QUEUED tasks of that department, the one of highest priority, the earliest
\* in the queue among those of equal priority; it returns None exactly when
\* there is no such task.
QueuedFor(d) == {k \in 1..Len(pending) : tasks[pending[k]].status = "QUEUED"
                                          /\ tasks[pending[k]].dept = d}
AssignedWithinHomeDept ==
    \A t \in TaskIds :
        tasks[t].assigned_worker_id \in DOMAIN workers =>
            workers[tasks[t].assigned_worker_id].home_dept = tasks[t].dept

\* C14: every task with an assigned worker has the home department of that
\* worker as its dept, and the item of a CARRY task that a worker has claimed
\* is in the department of that worker, the one it is carried out of.
C14_CarriedOutOfHomeDept ==
    /\ AssignedWithinHomeDept
    /\ \A t \in TaskIds :
          (tasks[t].task_type = "CARRY" /\ Live(t)
             /\ tasks[t].assigned_worker_id \in DOMAIN workers) =>
                items[tasks[t].item_id].stage =
                    workers[tasks[t].assigned_worker_id].home_dept

\* C15: no task is the current_task of two workers, and the task a worker
\* holds as current_task names that worker as its assigned worker.
C15_OneWorkerPerTask ==
    \A w \in DOMAIN workers :
        workers[w].current_task # None =>
            /\ workers[w].current_task \in TaskIds
            /\ tasks[workers[w].current_task].assigned_worker_id = w
            /\ \A x \in DOMAIN workers \ {w} :
                  workers[x].current_task # workers[w].current_task

\* two workers of one department at work, each on a task of its own
C15_Witness ==
    \E w, x \in DOMAIN workers :
        /\ w # x
        /\ workers[w].home_dept = workers[x].home_dept
        /\ workers[w].current_task # None
        /\ workers[x].current_task # None

\* C16: take a task a worker has claimed.  In one run it goes on undisturbed: a
\* frame passes (tick), a second frame passes, the worker finishes and calls
\* complete_task.  In the other run the task is failed first (fail_task), a
\* frame passes, a worker claims the re-queued task again (Task.assign), a
\* frame passes while it walks, and it starts the task and calls complete_task.
\* Both runs end with the same items, the same department buffers and
\* items_processed counters, and the same follow-on tasks.
reclaimed(s, t, wid) == [s EXCEPT !.tasks[t] = assign(@, wid)]
started(s, t) == [s EXCEPT !.tasks[t] = start(@)]
run_without_fail(s, t) == complete_task(started(tick(tick(s)), t), t)
run_after_fail(s, t, wid) ==
    complete_task(started(tick(reclaimed(tick(fail_task(s, t)), t, wid)), t), t)
FollowOn(s, r) ==
    {<<u, r.tasks[u].task_type, r.tasks[u].item_id, r.tasks[u].dept>> :
        u \in (Len(s.tasks) + 1)..Len(r.tasks)}
SameOutcome(s, a, b) ==
    /\ a.items = b.items
    /\ a.dept = b.dept
    /\ FollowOn(s, a) = FollowOn(s, b)
C16_FailRoundTrip ==
    \A t \in TaskIds :
        (Live(t) /\ tasks[t].assigned_worker_id \in DOMAIN workers) =>
            SameOutcome(World, run_without_fail(World, t),
                        run_after_fail(World, t, tasks[t].assigned_worker_id))

\* C17: no item is being processed while it is ready to carry with a carrier
\* assigned; every item in a department buffer is in exactly one of four
\* conditions: idle in the buffer, being worked on, awaiting pickup, in transit.
Buffered == {i \in ItemIds : \E d \in Departments : i \in Range(dept[d].item_buffer)}
Conditions(i) ==
    <<~items[i].being_processed /\ ~items[i].ready_to_carry /\ items[i].carrier_id = None,
      items[i].being_processed,
      items[i].ready_to_carry /\ items[i].carrier_id = None,
      items[i].carrier_id # None>>
\* (this much holds in every reachable state)
ProcessingExcludesCarrying ==
    \A i \in ItemIds : ~(items[i].being_processed /\ items[i].ready_to_carry
                            /\ items[i].carrier_id # None)
C17_OneConditionPerItem ==
    /\ ProcessingExcludesCarrying
    /\ \A i \in Buffered : Cardinality({k \in 1..4 : Conditions(i)[k]}) = 1

HeldBy(t) == {w \in DOMAIN workers : workers[w].current_task = t}

\* C18: complete_task on a PROCESS task that a worker of the pool has in
\* progress and whose item is in a buffer leaves the task COMPLETE and out of the pending queue, the item not being
\* processed, processed and ready to carry, items_processed one higher for the
\* department of the task and unchanged for the others, and at most one new
\* task, a CARRY task for the item.
C18_ProcessCompletion ==
    \A t \in TaskIds :
        (tasks[t].task_type = "PROCESS" /\ tasks[t].status = "IN_PROGRESS"
           /\ HeldBy(t) # {}
           /\ find_item(World, tasks[t].item_id) # None) =>
            LET r == complete_task(World, t)
                i == tasks[t].item_id
            IN  /\ r.tasks[t].status = "COMPLETE"
                /\ t \notin Range(r.pending)
                /\ ~r.items[i].being_processed
                /\ r.items[i].processed
                /\ r.items[i].ready_to_carry
                /\ \A d \in Departments :
                      r.dept[d].items_processed =
                          dept[d].items_processed + (IF d = tasks[t].dept THEN 1 ELSE 0)
                /\ Len(r.tasks) <= Len(tasks) + 1
                /\ \A u \in (Len(tasks) + 1)..Len(r.tasks) :
                      r.tasks[u].task_type = "CARRY" /\ r.tasks[u].item_id = i

\* C19: complete_task on a CARRY task that a worker of the pool holds and whose
\* item is in a buffer takes
\* the item out of the buffer of the department of the task and out of no
\* other buffer, moves the item one stage on, and, if that stage is a
\* department, puts the item into its buffer, not processed, not ready to
\* carry and without carrier, being_processed only if a PROCESS task for it was
\* created there, which is then the only new task.
C19_CarryCompletion ==
    \A t \in TaskIds :
        (tasks[t].task_type = "CARRY" /\ Live(t)
           /\ HeldBy(t) # {}
           /\ find_item(World, tasks[t].item_id) # None) =>
            LET r == complete_task(World, t)
                i == tasks[t].item_id
                to == r.items[i].stage
            IN  /\ i \in Range(dept[tasks[t].dept].item_buffer)
                /\ i \notin Range(r.dept[tasks[t].dept].item_buffer)
                /\ \A d \in Departments \ {tasks[t].dept, to} :
                      r.dept[d].item_buffer = dept[d].item_buffer
                /\ StagePos(to) = StagePos(items[i].stage) + 1
                /\ to \in Departments =>
                      /\ r.dept[to].item_buffer = Append(dept[to].item_buffer, i)
                      /\ ~r.items[i].processed
                      /\ ~r.items[i].ready_to_carry
                      /\ r.items[i].carrier_id = None
                      /\ Len(r.tasks) <= Len(tasks) + 1
                      /\ r.items[i].being_processed <=> Len(r.tasks) = Len(tasks) + 1
                      /\ \A u \in (Len(tasks) + 1)..Len(r.tasks) :
                            /\ r.tasks[u].task_type = "PROCESS"
                            /\ r.tasks[u].item_id = i
                            /\ r.tasks[u].dept = to

\* what fail_task leaves of a known task: QUEUED, without assigned worker, once
\* in the pending queue
Requeued(r, t) ==
    /\ r.tasks[t].status = "QUEUED"
    /\ r.tasks[t].assigned_worker_id = None
    /\ Cardinality({k \in 1..Len(r.pending) : r.pending[k] = t}) = 1

UnknownIds == {0, Len(tasks) + 1}

Arriving(d) == [World EXCEPT !.items = Append(@, [NewItem EXCEPT !.stage = d])]
FreeWorkstations(d) == {t \in Range(workstation_tiles(d)) : occupied_by[t] = None}

\* C21: on_item_arrived appends the item to the buffer of the department of its
\* stage; if a workstation tile of that department has no occupant it marks
\* the item being_processed and queues one PROCESS task for it at such a tile
\* (published as TASK_CREATED); if none is free the item is only buffered,
\* being_processed false; nothing else changes.
C21_ArrivalBuffersAndQueues ==
    \A d \in Departments :
        LET i == Len(items) + 1
            u == Len(tasks) + 1
            a == Arriving(d)
            r == on_item_arrived(a, i)
            buffered == [a EXCEPT !.dept[d].item_buffer = Append(@, i)]
        IN  IF FreeWorkstations(d) = {}
            THEN r = buffered /\ ~r.items[i].being_processed
            ELSE /\ r.tasks = Append(tasks, NewTask("PROCESS", i, d, r.tasks[u].target, <<0, 0>>, ""))
                 /\ r.tasks[u].target \in FreeWorkstations(d)
                 /\ r.pending = Append(pending, u)
                 /\ r.published = published (+) SetToBag({<<"TASK_CREATED", u>>})
                 /\ r.items = [a.items EXCEPT ![i].being_processed = TRUE]
                 /\ r.dept = buffered.dept
                 /\ r.occupied_by = occupied_by

\* an item arrived while a worker stood on the one workstation of the
\* department: it waits in the buffer, untouched and without a task
C21_Witness ==
    \E i \in ItemIds : \E d \in Departments :
        /\ i \in Range(dept[d].item_buffer)
        /\ FreeWorkstations(d) = {}
        /\ ~items[i].being_processed /\ ~items[i].processed
        /\ \A t \in TaskIds : tasks[t].item_id # i

\* the PROCESS tasks of department d that are in world r and not yet in the
\* present one
NewProcessTasks(r, d) ==
    {u \in (Len(tasks) + 1)..Len(r.tasks) :
        r.tasks[u].task_type = "PROCESS" /\ r.tasks[u].dept = d}
\* the buffered items of d that are neither processed nor being processed
Unprocessed(d) ==
    {i \in Range(dept[d].item_buffer) : ~items[i].being_processed /\ ~items[i].processed}
Unfinished(t) == tasks[t].status \in {"QUEUED", "ASSIGNED", "IN_PROGRESS"}
\* those of them that have no unfinished task
Taskless(d) == {i \in Unprocessed(d) : \A t \in TaskIds : Unfinished(t) => tasks[t].item_id # i}

\* C22: tick() creates no PROCESS task for a department none of whose
\* workstations is free, and exactly one, for an unprocessed item, for a
\* department that has a free workstation and an unprocessed item without a
\* task: a backlog of three is worked off one task per tick.
C22_OneProcessTaskPerTick ==
    \A d \in Departments :
        LET r == tick(World)
        IN  /\ FreeWorkstations(d) = {} => NewProcessTasks(r, d) = {}
            /\ (FreeWorkstations(d) # {} /\ Taskless(d) # {}) =>
                  \E u \in NewProcessTasks(r, d) :
                      /\ NewProcessTasks(r, d) = {u}
                      /\ r.tasks[u].item_id \in Unprocessed(d)

\* three items have waited in a buffer while the workstation of the department
\* was taken; the worker has left it and the first tick with the workstation
\* free is due
C22_Witness ==
    \E d \in Departments :
        /\ frame \in {"events", "spawn"}
        /\ FreeWorkstations(d) # {}
        /\ Cardinality(Taskless(d)) = Backlog
        /\ dept[d].items_processed > 0

\* the tiles of the grid that are walkable, and the 4-neighbourhood
WalkableTiles(w) == {n \in GridTiles(grid_rows(w)) : w[n[2]][n[1]]}
Adjacent(a, b) == Abs(a[1] - b[1]) + Abs(a[2] - b[2]) = 1
\* the tiles within k steps over walkable tiles of the tile st
RECURSIVE Within(_, _, _)
Within(w, st, k) ==
    IF k = 0 THEN {st}
    ELSE LET s == Within(w, st, k - 1)
         IN  s \cup {n \in WalkableTiles(w) : \E m \in s : Adjacent(m, n)}
\* the length of the shortest route from st to g, -1 if there is none
Distance(w, st, g) ==
    LET n == grid_rows(w) * grid_rows(w)
        ks == {k \in 0..n : g \in Within(w, st, k)}
    IN  IF ks = {} THEN -1 ELSE CHOOSE k \in ks : \A j \in ks : k <= j
Calls == IF query = NoQuery THEN {} ELSE Range(query.returned)

\* C23: for a walkable start and a walkable goal joined by a route, what
\* find_path returned does not contain the start, begins next to the start,
\* goes from tile to adjacent tile over walkable tiles, ends at the goal and is
\* as long as the shortest route: twice the side less two on the fully
\* walkable example grid from corner to corner (8 for side 5).
C23_ShortestPath ==
    \A c \in Calls :
        LET w == query.walkable
            p == c.path
        IN  (c.start \in WalkableTiles(w) /\ c.goal \in WalkableTiles(w)
               /\ Distance(w, c.start, c.goal) >= 0) =>
                /\ Len(p) = Distance(w, c.start, c.goal)
                /\ w = ExampleGrid => Len(p) = 2 * (ExampleSide - 1)
                /\ \A k \in 1..Len(p) :
                      /\ p[k] \in WalkableTiles(w)
                      /\ p[k] # c.start
                      /\ Adjacent(IF k = 1 THEN c.start ELSE p[k - 1], p[k])
                /\ Len(p) > 0 => p[Len(p)] = c.goal

\* a call has returned a route that has to go round a wall
C23_Witness ==
    \E c \in Calls :
        /\ c.start \in WalkableTiles(query.walkable)
        /\ c.goal \in WalkableTiles(query.walkable)
        /\ Len(c.path) > heuristic(c.start, c.goal)

\* the tile the search is aimed at: the goal, or the tile _nearest_walkable
\* puts in its place when the goal is not a walkable tile of the grid
Target(w, g) ==
    IF in_grid_walkable(w, g[1], g[2]) THEN g ELSE nearest_walkable(w, g[1], g[2])
HasRoute(w, st, g) ==
    IF Target(w, g) = NoTile THEN FALSE ELSE Distance(w, st, Target(w, g)) >= 0

\* C24: a call of find_path returns; it returns the empty list when start and
\* goal are the same tile and when there is no route from the start to the
\* goal or to the walkable tile nearest to it; in every other case it returns
\* a path that is not empty.
C24_EmptyIffNoRoute ==
    query # NoQuery =>
        LET w == query.walkable
            st == query.start
            g == query.goal
        IN  /\ find_path_returns(w, st, g)
            /\ (st = g \/ ~HasRoute(w, st, g)) => find_path(w, st, g) = <<>>
            /\ (st # g /\ HasRoute(w, st, g)) => find_path(w, st, g) # <<>>

\* (this much holds for every grid, start and goal)
EmptyIffNoWayToGo ==
    query # NoQuery =>
        LET w == query.walkable
            st == query.start
            g == query.goal
        IN  /\ find_path_returns(w, st, g) <=> (st = g \/ has_walkable(w))
            /\ find_path(w, st, g) # <<>> <=>
                  (st # g /\ HasRoute(w, st, g) /\ Target(w, g) # st)

UnfinishedOf(i) == {t \in TaskIds : Unfinished(t) /\ tasks[t].item_id = i}

\* C26: at any time each item has at most one task that is QUEUED, ASSIGNED
\* or IN_PROGRESS.
C26_OneUnfinishedTaskPerItem ==
    \A i \in ItemIds : Cardinality(UnfinishedOf(i)) <= 1

\* C27: an item leaves a department only after it was processed there: in
\* every step that advances an item from a stage to the next, its processed
\* flag is set and a PROCESS task for it in the department of that stage is
\* COMPLETE.
C27_LeavesOnlyProcessed ==
    [][\A i \in ItemIds :
          items'[i].stage # items[i].stage =>
              /\ items[i].processed
              /\ \E t \in TasksOf("PROCESS", items[i].stage) :
                     tasks[t].item_id = i /\ tasks[t].status = "COMPLETE"]_vars

\* the unprocessed items of d that have no QUEUED task
Unqueued(d) ==
    {i \in Unprocessed(d) :
        \A t \in TaskIds : tasks[t].status = "QUEUED" => tasks[t].item_id # i}

\* C28: tick() creates a PROCESS task for one of the unprocessed items without
\* a QUEUED task of every department that holds such an item and has a free
\* workstation, wherever that item stands in the buffer and whatever the
\* state of the items before it.
C28_TickServesAnyUnqueuedItem ==
    \A d \in Departments :
        (Unqueued(d) # {} /\ FreeWorkstations(d) # {}) =>
            \E u \in NewProcessTasks(tick(World), d) :
                tick(World).tasks[u].item_id \in Unqueued(d)

\* the status changes of the life cycle of a task; a failure passes through
\* FAILED within fail_task and leaves the task QUEUED
Lifecycle ==
    {<<"QUEUED", "ASSIGNED">>, <<"ASSIGNED", "IN_PROGRESS">>,
     <<"IN_PROGRESS", "COMPLETE">>, <<"ASSIGNED", "QUEUED">>, <<"IN_PROGRESS", "QUEUED">>}

\* C29: every change of the status of a task, PROCESS or CARRY, follows
\* QUEUED -> ASSIGNED -> IN_PROGRESS -> COMPLETE or is a failure that returns
\* the task to QUEUED: a task that becomes COMPLETE was IN_PROGRESS right
\* before, and a COMPLETE task never changes its status again.
C29_StatusLifecycle ==
    [][\A t \in TaskIds :
          tasks'[t].status # tasks[t].status =>
              <<tasks[t].status, tasks'[t].status>> \in Lifecycle]_vars

\* the worker w holds, after the step, a task of the given type that it has claimed
Claimed(w, type) ==
    /\ workers[w].current_task = None
    /\ workers'[w].current_task # None
    /\ tasks'[workers'[w].current_task].task_type = type
    /\ tasks'[workers'[w].current_task].assigned_worker_id = w

\* the task the worker w held has, after the step, failed and is QUEUED again
Failed(w) ==
    /\ workers[w].current_task # None
    /\ workers'[w].current_task = None
    /\ tasks'[workers[w].current_task].status = "QUEUED"

\* the change of state of the worker w in the step is one of the edges
Edge(w) ==
    LET from == workers[w].state
        to   == workers'[w].state
    IN  \/ from = "IDLE" /\ to = "MOVING_TO_TASK" /\ Claimed(w, "PROCESS")
        \/ from = "IDLE" /\ to = "MOVING_TO_PICK" /\ Claimed(w, "CARRY")
        \/ from = "MOVING_TO_TASK" /\ to = "WORKING"
        \/ from = "WORKING" /\ to = "IDLE"
        \/ from = "MOVING_TO_PICK" /\ to = "CARRYING"
        \/ from = "MOVING_TO_PICK" /\ to = "IDLE" /\ Failed(w)
        \/ from = "CARRYING" /\ to = "DELIVERING"
        \/ from = "DELIVERING" /\ to = "RETURNING"
        \/ from = "DELIVERING" /\ to = "IDLE"
               /\ workers'[w].tile # drop_point_tiles(workers[w].home_dept)[1]
        \/ from = "RETURNING" /\ to = "IDLE"

\* C30: the state of a worker changes only along IDLE -> MOVING_TO_TASK with
\* a PROCESS task claimed, IDLE -> MOVING_TO_PICK with a CARRY task claimed,
\* MOVING_TO_TASK -> WORKING, WORKING -> IDLE, MOVING_TO_PICK -> CARRYING or,
\* when no path is found, IDLE, CARRYING -> DELIVERING, DELIVERING ->
\* RETURNING or, with no path home, IDLE, and RETURNING -> IDLE.
C30_WorkerStateEdges ==
    [][\A w \in DOMAIN workers \cap DOMAIN workers' :
          workers'[w].state # workers[w].state => Edge(w)]_vars

\* a worker that claimed a CARRY task, picked the item up, carried and
\* delivered it has found no path home and idles on the drop point of the
\* next department, while another worker is on its way to a workstation or
\* at work there
C30_Witness ==
    \E w, v \in DOMAIN workers :
        /\ workers[w].state = "IDLE"
        /\ workers[w].tile # drop_point_tiles(workers[w].home_dept)[1]
        /\ \E t \in TaskIds :
               /\ tasks[t].task_type = "CARRY"
               /\ tasks[t].status = "COMPLETE"
               /\ tasks[t].assigned_worker_id = w
               /\ tasks[t].deliver = workers[w].tile
        /\ v # w
        /\ workers[v].state \in {"MOVING_TO_TASK", "WORKING"}

\* the step is an update of the worker at the head of todo in which it
\* claims a task, or picks up an item, and finds no path to the next target
PathFailure ==
    /\ UpdateWorkerNoPath
    /\ ~delivers(World, workers[Head(todo)], dt)

\* the task that worker w claims or holds in a step of path failure
FailedTask(w) ==
    IF workers[w].state = "IDLE" THEN get_task_for_worker(World, workers[w].home_dept)
    ELSE workers[w].current_task

\* the step is an update of an idle worker whose cooldown has not elapsed
CoolingDown ==
    /\ frame = "workers"
    /\ todo # <<>>
    /\ workers[Head(todo)].state = "IDLE"
    /\ workers[Head(todo)].idle_timer - dt > 0

\* C31: when a worker claims a task or picks up an item and finds no path, in
\* that same update step the task is QUEUED again without assigned worker,
\* its item has no carrier, and the worker is IDLE without task and without
\* carried item, with a cooldown; a worker whose cooldown has not elapsed
\* requests no task.
C31_PathFailure ==
    [][(PathFailure =>
           LET w == Head(todo)
               t == FailedTask(w)
           IN  /\ tasks'[t].status = "QUEUED"
               /\ tasks'[t].assigned_worker_id = None
               /\ items'[tasks[t].item_id].carrier_id = None
               /\ workers'[w].state = "IDLE"
               /\ workers'[w].current_task = None
               /\ workers'[w].carried_item_id = None
               /\ workers'[w].idle_timer > 0)
         /\ (CoolingDown =>
                /\ tasks' = tasks
                /\ pending' = pending
                /\ workers'[Head(todo)].state = "IDLE"
                /\ workers'[Head(todo)].current_task = None)]_vars

\* (this much holds: the same with the carrier of the item of a CARRY task,
\* the one that fail_task clears)
PathFailureFreesCarried ==
    [][(PathFailure =>
           LET w == Head(todo)
               t == FailedTask(w)
           IN  /\ tasks'[t].status = "QUEUED"
               /\ tasks'[t].assigned_worker_id = None
               /\ tasks[t].task_type = "CARRY" => items'[tasks[t].item_id].carrier_id = None
               /\ workers'[w].state = "IDLE"
               /\ workers'[w].current_task = None
               /\ workers'[w].carried_item_id = None
               /\ workers'[w].idle_timer > 0)
         /\ (CoolingDown =>
                /\ tasks' = tasks
                /\ pending' = pending
                /\ workers'[Head(todo)].state = "IDLE"
                /\ workers'[Head(todo)].current_task = None)]_vars

\* the departments out of which nothing can be carried for want of a drop
\* point, their own or that of the next department
Gapped ==
    {d \in Departments :
        /\ next_stage(d) \in Departments
        /\ drop_point_tiles(d) = <<>> \/ drop_point_tiles(next_stage(d)) = <<>>}

\* the CARRY tasks for item i that the world r has and the present one has not
NewCarryTasks(r, i) ==
    {u \in (Len(tasks) + 1)..Len(r.tasks) :
        r.tasks[u].task_type = "CARRY" /\ r.tasks[u].item_id = i}

\* in the world r item i waits in the buffer of d, ready to carry, without carrier
Waits(r, i, d) ==
    /\ i \in Range(r.dept[d].item_buffer)
    /\ r.items[i].stage = d
    /\ r.items[i].ready_to_carry
    /\ r.items[i].carrier_id = None

\* the items that wait in d and never had a CARRY task out of d
Stalled(d) ==
    {i \in ItemIds :
        /\ Waits(World, i, d)
        /\ \A t \in TasksOf("CARRY", d) : tasks[t].item_id # i}

GapCreatesNoCarryTask ==
    \A d \in Gapped :
        /\ \A t \in TasksOf("PROCESS", d) :
              (tasks[t].status = "IN_PROGRESS" /\ HeldBy(t) # {}
                 /\ tasks[t].item_id \in Range(dept[d].item_buffer)) =>
                  /\ NewCarryTasks(complete_task(World, t), tasks[t].item_id) = {}
                  /\ tasks[t].item_id \in Range(complete_task(World, t).dept[d].item_buffer)
        /\ \A i \in Stalled(d) :
              /\ NewCarryTasks(tick(World), i) = {}
              /\ Waits(tick(World), i, d)

\* the step is the update of a worker that finishes its work, and the
\* completion of its PROCESS task creates the follow-on task
Cascade ==
    /\ frame = "workers"
    /\ todo # <<>>
    /\ workers[Head(todo)].state = "WORKING"
    /\ workers[Head(todo)].current_task # None
    /\ tasks'[workers[Head(todo)].current_task].status = "COMPLETE"
    /\ Len(tasks') > Len(tasks)

\* C33: when the update of a worker completes a PROCESS task and the
\* completion creates the follow-on CARRY task, the new task is QUEUED, in the
\* pending queue and without assigned worker after the step, the completing
\* worker is left without task, no worker holds the new task, and a task is
\* claimed only by the poll of an idle worker, in a step of its own.
C33_CascadeOnlyEnqueues ==
    [][(Cascade =>
           /\ Len(tasks') = Len(tasks) + 1
           /\ tasks'[Len(tasks')].task_type = "CARRY"
           /\ tasks'[Len(tasks')].status = "QUEUED"
           /\ tasks'[Len(tasks')].assigned_worker_id = None
           /\ Len(tasks') \in Range(pending')
           /\ workers'[Head(todo)].current_task = None
           /\ workers'[Head(todo)].state = "IDLE"
           /\ \A v \in DOMAIN workers' : workers'[v].current_task # Len(tasks'))
         /\ (\A t \in TaskIds :
                (tasks[t].status = "QUEUED" /\ tasks'[t].assigned_worker_id # None) =>
                    /\ frame = "workers"
                    /\ todo # <<>>
                    /\ workers[Head(todo)].state = "IDLE"
                    /\ workers[Head(todo)].current_task = None
                    /\ tasks'[t].assigned_worker_id = Head(todo)
                    /\ workers'[Head(todo)].current_task = t)]_vars

\* a worker has finished processing an item, the follow-on CARRY task was
\* queued in that step, and in a later update the worker, idle in between,
\* has claimed it and is on its way to the pick-up point
C33_Witness ==
    \E w \in DOMAIN workers : \E t, u \in TaskIds :
        /\ tasks[t].task_type = "PROCESS"
        /\ tasks[t].status = "COMPLETE"
        /\ tasks[t].assigned_worker_id = w
        /\ tasks[u].task_type = "CARRY"
        /\ tasks[u].item_id = tasks[t].item_id
        /\ tasks[u].dept = tasks[t].dept
        /\ tasks[u].status = "ASSIGNED"
        /\ tasks[u].assigned_worker_id = w
        /\ workers[w].current_task = u
        /\ workers[w].state = "MOVING_TO_PICK"

\* the workers whose tile position is the tile tl
WorkersAt(tl) == {w \in DOMAIN workers : workers[w].tile = tl}

\* C34: at any time at most one worker has a given tile as its tile position,
\* and the occupied_by of a tile, when set, is the id of a worker of the pool
\* whose tile position is that tile.
C34_OneWorkerPerTile ==
    \A tl \in Tiles :
        /\ Cardinality(WorkersAt(tl)) <= 1
        /\ occupied_by[tl] # None => occupied_by[tl] \in WorkersAt(tl)

\* (this much holds: a tile is marked for nobody but a worker that stands on it)
OccupantStandsOnTile ==
    \A tl \in Tiles : occupied_by[tl] # None => occupied_by[tl] \in WorkersAt(tl)

\* the places item i has in the buffer of d
PlacesIn(d, i) == {k \in 1..Len(dept[d].item_buffer) : dept[d].item_buffer[k] = i}

\* C35: every item that has arrived and is not delivered is in exactly one
\* department buffer, exactly once, and that department is the one its stage
\* names; add_item of an item that is in the buffer and remove_item of an
\* item that is not leave the buffer as it is.
C35_OneBufferPerItem ==
    /\ \A i \in ItemIds :
          items[i].stage # "delivered" =>
              /\ items[i].stage \in Departments
              /\ \A d \in Departments :
                    Cardinality(PlacesIn(d, i)) = IF d = items[i].stage THEN 1 ELSE 0
    /\ \A d \in Departments : \A i \in ItemIds :
          /\ i \in Range(dept[d].item_buffer) => add_item(World, d, i) = World
          /\ i \notin Range(dept[d].item_buffer) => remove_item(World, d, i) = World

\* C36: whenever the carrier_id of an item is w, worker w is in the pool, its
\* current task is a CARRY task for that item and its carried_item_id is the
\* id of the item; conversely the carried_item_id of a worker names only an
\* item whose carrier_id is that worker.
C36_CarrierAndCarried ==
    /\ \A i \in ItemIds :
          items[i].carrier_id # None =>
              /\ items[i].carrier_id \in DOMAIN workers
              /\ workers[items[i].carrier_id].current_task # None
              /\ tasks[workers[items[i].carrier_id].current_task].task_type = "CARRY"
              /\ tasks[workers[items[i].carrier_id].current_task].item_id = i
              /\ workers[items[i].carrier_id].carried_item_id = i
    /\ \A w \in DOMAIN workers :
          workers[w].carried_item_id # None =>
              items[workers[w].carried_item_id].carrier_id = w

\* C37: for every department, items_processed equals the number of items whose
\* processing was completed in that department: it is incremented exactly once
\* for each item processed there and never for an item of another department.
ProcessingCompleted(d) ==
    {i \in ItemIds : \E t \in TaskIds : /\ tasks[t].task_type = "PROCESS"
                                        /\ tasks[t].status = "COMPLETE"
                                        /\ tasks[t].dept = d
                                        /\ tasks[t].item_id = i}
C37_ItemsProcessedCounts ==
    \A d \in Departments :
        dept[d].items_processed = Cardinality(ProcessingCompleted(d))

\* the walkable tiles of the grid closest to the goal, counting steps over
\* the plane
Nearest(w, g) ==
    {n \in WalkableTiles(w) : \A m \in WalkableTiles(w) : heuristic(n, g) <= heuristic(m, g)}
Substituted == {c \in Calls : ~in_grid_walkable(query.walkable, c.goal[1], c.goal[2])}
ShortestTo(w, st, tgt, p) ==
    /\ Len(p) = Distance(w, st, tgt)
    /\ \A k \in 1..Len(p) :
          /\ p[k] \in WalkableTiles(w)
          /\ Adjacent(IF k = 1 THEN st ELSE p[k - 1], p[k])
    /\ Len(p) > 0 => p[Len(p)] = tgt

\* C38: when the goal tile is not walkable or lies outside the grid, find_path
\* resolves the walkable tile nearest to the goal by breadth-first expansion
\* from the goal and returns a shortest path from the start to that tile.
C38_PathToNearestWalkable ==
    \A c \in Substituted :
        /\ c.start # c.goal =>
              Target(query.walkable, c.goal) \in Nearest(query.walkable, c.goal)
        /\ ShortestTo(query.walkable, c.start, Target(query.walkable, c.goal), c.path)

\* C38 as it holds: for a start other than the goal, with a route from the
\* start to the walkable tile nearest to the goal, the call returns a shortest
\* path to that tile; it returns the empty list when start and goal are the
\* same tile and when there is no such route.
C38_PathToNearestWalkableIfAny ==
    \A c \in Substituted :
        /\ c.start # c.goal =>
              Target(query.walkable, c.goal) \in Nearest(query.walkable, c.goal)
        /\ (c.start # c.goal /\ HasRoute(query.walkable, c.start, c.goal)) =>
              ShortestTo(query.walkable, c.start, Target(query.walkable, c.goal), c.path)
        /\ (c.start = c.goal \/ ~HasRoute(query.walkable, c.start, c.goal)) =>
              c.path = <<>>

\* a call with a goal outside the grid has returned a path that goes round a
\* wall to the nearest walkable tile
C38_Witness ==
    \E c \in Substituted :
        /\ c.goal \in OutsideTiles
        /\ Len(c.path) > heuristic(c.start, Target(query.walkable, c.goal))

\* C39: find_path terminates for every grid, start and goal, a grid with no
\* walkable tile and a goal outside the grid included, and returns the empty
\* list when the grid has no walkable tile.
C39_FindPathTerminates ==
    query # NoQuery =>
        /\ find_path_returns(query.walkable, query.start, query.goal)
        /\ ~has_walkable(query.walkable) =>
              find_path(query.walkable, query.start, query.goal) = <<>>

\* (this much holds: with a walkable tile in the grid every call returns, for
\* a goal outside the grid as for one inside)
ReturnsWithWalkableTile ==
    (query # NoQuery /\ has_walkable(query.walkable)) =>
        find_path_returns(query.walkable, query.start, query.goal)

\* the tasks whose item is in no department buffer
Orphaned == {t \in TaskIds : find_item(World, tasks[t].item_id) = None}

\* C40: complete_task on a task whose item is in no department buffer marks
\* the task COMPLETE and removes it from the pending queue, and changes no
\* item, no department buffer or counter, creates no task and publishes no
\* signal.
C40_OrphanedCompletion ==
    \A t \in Orphaned :
        LET r == complete_task(World, t)
        IN  /\ r.tasks = [tasks EXCEPT ![t].status = "COMPLETE"]
            /\ r.pending = SelectSeq(pending, LAMBDA u : u # t)
            /\ r.items = items
            /\ r.dept = dept
            /\ r.published = published

\* a worker holds a PROCESS task it has started, for an item that is in no
\* department buffer any more, and the task is still in the pending queue
C40_Witness ==
    \E t \in Orphaned :
        /\ tasks[t].task_type = "PROCESS"
        /\ tasks[t].status = "IN_PROGRESS"
        /\ HeldBy(t) # {}
        /\ t \in Range(pending)

====
